---- MODULE Spec2Model ----
(***************************************************************************)
(* Model of the localhost bridge of the Google Classroom Electron client:  *)
(* MCPBridgeService (mcp-bridge-service.ts): license gate, host admission, *)
(* the authenticate-then-relay protocol of each WebSocket connection, and  *)
(* the start/stop lifecycle of the listener, the session sweep and the     *)
(* http side channel; SupabaseService.getLicenseStatus; and the bridge     *)
(* install of MCPLauncherService (mcp-launcher-service.ts) on the client's *)
(* config file, with the connector script that the client then runs.       *)
(*                                                                         *)
(* The event loop is modelled by interleaving: one action is one turn of   *)
(* the loop, i.e. the code of a handler from its entry (or from the        *)
(* resumption of an await) up to its next await or its return.             *)
(***************************************************************************)
EXTENDS Integers, Sequences, FiniteSets, TLC

(***************************************************************************)
(* Bounds of the model.                                                    *)
(***************************************************************************)
MaxMsgs == 3        \* frames that the peers send to a running bridge
MaxLifeMsgs == 2    \* the same, in the runs that also start and stop the bridge
MaxServers == 2     \* http servers created by startBridge calls
MaxElapsed == 20000 \* a connection's clock stops here (milliseconds)
MaxIdle == 3602000  \* the same, in the runs of the session sweep
MaxInstalls == 2    \* runs of the bridge install on the client's config file
MaxPairMsgs == 3    \* the same, in the runs of two concurrent sessions
MaxPairIdle == 1801000  \* a connection's clock stops here, in the same runs
MaxStdin == 2       \* messages the client writes to the connector's standard input

Conns == {1, 2}     \* connection attempts; a session id is its attempt
Steps == {10000}    \* amounts by which time advances (milliseconds)

(***************************************************************************)
(* Program constants.                                                      *)
(***************************************************************************)
Port == 5123            \* config.port
AuthTimeout == 10000    \* setTimeout(..., 10000) in handleNewConnection
sessionTimeout == 1800000   \* this.sessionTimeout = 30 * 60 * 1000

authToken == "TOKEN"    \* config.authToken, fixed at construction
Tokens == {authToken, "WRONG"}

\* Host headers of upgrade requests: <<name, port>>, or <<>> when absent.
Hosts == { <<"localhost", Port>>, <<"127.0.0.1", Port>>,
           <<"localhost", 80>>, <<"evil.example", Port>> }

LoopbackHosts == { <<"localhost", Port>>, <<"127.0.0.1", Port>> }

\* Inbound frames.  A frame that is not a JSON object makes the handler throw.
Messages ==
  [type : {"auth"}, token : Tokens] \cup
  { [type |-> "call", token |-> "none"], [type |-> "malformed", token |-> "none"] }

\* What the license query (SupabaseService.getLicenseStatus, seen from
\* verifyLicense) can produce: it throws, or it returns
\* {success, status?, daysRemaining?}.  An absent field is the empty set.
Statuses == {"active", "trial", "expired", "suspended", "none"}
Days == {-1, 0, 1, 2}
LicenseQueries ==
  [throws : {TRUE}, success : {FALSE}, status : {{}}, daysRemaining : {{}}] \cup
  [throws : {FALSE}, success : BOOLEAN,
   status : {{}} \cup {{s} : s \in Statuses},
   daysRemaining : {{}} \cup {{d} : d \in Days}]

\* What SupabaseService.getLicenseStatus finds: no signed-in user, a failed
\* query, no row, a null row, or the user's row of user_licenses with its
\* status and its expires_at, which is absent (<<>>) or lies so many
\* milliseconds after now.
DayMs == 86400000       \* 1000 * 60 * 60 * 24
ExpiryOffsets == {0 - 2 * DayMs, 0 - 1, 0, 1, DayMs, DayMs + 1}
NoRow == [status |-> "none", expires_at |-> <<>>]
LicenseRows ==
  [status : Statuses \ {"none"}, expires_at : {<<>>} \cup {<<o>> : o \in ExpiryOffsets}]
LicenseLookups ==
  [outcome : {"no_user", "error", "no_rows", "null"}, license : {NoRow}] \cup
  [outcome : {"row"}, license : LicenseRows]

\* The query outcomes that the runs of the bridge draw from: one per branch
\* of verifyLicense.
LicenseSamples ==
  { q \in LicenseQueries :
      \/ q.throws
      \/ ~q.success /\ q.status = {} /\ q.daysRemaining = {}
      \/ q.success /\ q.status = {"expired"} /\ q.daysRemaining = {}
      \/ q.success /\ q.status = {"active"} /\ q.daysRemaining = {1}
      \/ q.success /\ q.status = {"trial"} /\ q.daysRemaining \in {{}, {0}, {1}} }

\* Amounts by which time advances in the runs of the session sweep: up to one
\* second before, exactly to, and one second past the idle timeout.
SweepSteps == {sessionTimeout - 1000, sessionTimeout, sessionTimeout + 1000}

\* The same, in the runs of two concurrent sessions: past the idle timeout.
PairSteps == {sessionTimeout + 1000}

\* Plain http requests to the side channel of the listening server.
Methods == {"GET", "POST", "OPTIONS"}
Urls == {"/health", "/config", "/other"}
HttpRequests == [method : Methods, url : Urls, host : Hosts]

\* The requests that the runs of the whole bridge draw from.
HttpSamples ==
  { r \in HttpRequests :
      r.method = "GET" /\ r.url = "/config" /\ r.host[1] \in {"localhost", "evil.example"}
                       /\ r.host[2] = Port }

\* The config file of the third-party client (claude_desktop_config.json).
\* A JSON document is an object with its top-level keys: here "theme", which
\* is not the installer's, and "mcpServers", which is absent, null, or an
\* object that maps server names to entries.  A key is absent (<<>>) or holds
\* one value (<<v>>).
ServerNames == {"googleClassroom", "google-classroom-mcp", "google-classroom-bridge",
                "other-tool"}
ourServerNames == {"google-classroom-mcp", "google-classroom-bridge"}

JsonNull == [json |-> "null"]
UserEntry ==
  [command |-> "x", args |-> <<"user-script">>,
   env |-> [MCP_BRIDGE_URL |-> <<"none", 0>>, MCP_BRIDGE_TOKEN |-> "user"]]
\* The entry that the install writes under googleClassroom.
BridgeEntry ==
  [command |-> "node", args |-> <<"mcp-bridge-connector.js">>,
   env |-> [MCP_BRIDGE_URL |-> <<"ws://localhost", Port>>, MCP_BRIDGE_TOKEN |-> authToken]]

EmptyServers == [n \in ServerNames |-> <<>>]
ServerMaps ==
  { m \in [ServerNames -> {<<>>, <<JsonNull>>, <<UserEntry>>, <<BridgeEntry>>}] :
      \A n \in ServerNames \ {"googleClassroom"} : m[n] \in {<<>>, <<UserEntry>>} }

EmptyDoc == [theme |-> <<>>, kind |-> "absent", servers |-> EmptyServers]   \* {}
Docs ==
  { d \in [theme : {<<>>, <<"dark">>}, kind : {"absent", "null", "object"},
           servers : ServerMaps] :
      d.kind # "object" => d.servers = EmptyServers }

\* A file: absent, or its content: text that is no JSON, blank text, a JSON
\* document in the user's formatting or as JSON.stringify(doc, null, 2)
\* writes it, or what a failed write has left of it.
AbsentFile == [state |-> "absent", format |-> "none", doc |-> EmptyDoc]
PartialFile == [state |-> "partial", format |-> "none", doc |-> EmptyDoc]
Stringified(d) == [state |-> "json", format |-> "stringify", doc |-> d]
ExistingFiles ==
  [state : {"corrupt", "blank"}, format : {"none"}, doc : {EmptyDoc}] \cup
  [state : {"json"}, format : {"user"}, doc : Docs]

\* Outcomes of fs.writeFile on the config file: written; failed before the
\* file was opened; failed after the file was truncated.
WriteOutcomes == {"ok", "failed_untouched", "failed_partial"}

\* The connector: the script that getBridgeConnectorScript generates and the
\* install writes, and the one shipped as resources/mcp-bridge-connector.js.
Scripts == {"generated", "resource"}

\* The environment of the connector process: a variable is unset (<<>>) or
\* holds one value.
EnvNames == {"BRIDGE_URL", "BRIDGE_TOKEN", "MCP_BRIDGE_URL", "MCP_BRIDGE_TOKEN"}

\* Outcomes of forwardToMCPServer.
ForwardOutcomes == {"ok", "no_credentials", "unreachable", "http_503"}

VARIABLES
  httpServer,           \* this.httpServer: 0 is null, else the server's id
  wsServer,             \* this.wsServer: 0 is null, else the server's id
  cleanupInterval,      \* this.cleanupInterval is set
  created,              \* number of http servers created so far
  listening,            \* ids of the servers that hold the port
  startPc,              \* position of the startBridge call in flight
  startResult,          \* what the last startBridge call returned, once it has
  stopPc,               \* position of the stopBridge call in flight
  ws,                   \* per connection: state of its socket
  refusedHost,          \* per attempt: Host header of the upgrade request, if refused
  server,               \* per connection: the server that accepted it
  elapsed,              \* per connection: Date.now() minus the time of its handleNewConnection
  authTimer,            \* per connection: authTimeout is armed
  closeReason,          \* per connection: reason of the bridge's close frame
  authenticatedClients, \* this.authenticatedClients: session id -> client
  recv,                 \* per connection: the frames handled so far
  pendingAuth,          \* per connection: handleAuthentication calls awaiting verifyLicense
  pendingFwd,           \* per connection: handleMCPMessage calls awaiting forwardToMCPServer
  sent,                 \* per connection: frames transmitted to the peer
  forwarded,            \* per connection: frames handed to forwardToMCPServer
  licenseOk,            \* per connection: auth frames whose own verifyLicense call returned success
  inserts,              \* per connection: number of authenticatedClients.set calls
  failed,               \* per connection: causes of failed authentication so far
  budget,               \* what the runs do at most: attempts, frames per connection, clock
  vlQuery,              \* license function check: the query outcome drawn
  vlResult,             \* license function check: what verifyLicense returned
  swept,                \* per connection: what the latest sweep tick did with its session
  httpResponse,         \* the latest plain http request and the response written to it
  configFile,           \* the client's config file at the path the install writes
  connectorScript,      \* the connector script file: "absent", "written", "partial"
  install,              \* the updateClaudeDesktopConfigForBridge call in flight
  installs,             \* the finished runs of the install, in order
  connector             \* the connector process that the client has spawned

bridgeVars == <<httpServer, wsServer, cleanupInterval, created, listening,
                startPc, startResult, stopPc>>
connVars == <<ws, refusedHost, server, elapsed, authTimer, closeReason,
              authenticatedClients, recv, pendingAuth, pendingFwd, sent>>
histVars == <<forwarded, licenseOk, inserts, failed>>
vlVars == <<budget, vlQuery, vlResult>>
obsVars == <<swept, httpResponse>>
installVars == <<configFile, connectorScript, install, installs, connector>>
vars == <<bridgeVars, connVars, histVars, vlVars, obsVars, installVars>>

(***************************************************************************)
(* verifyLicense: the entitlement policy, as a function of the query       *)
(* outcome.                                                                *)
(***************************************************************************)
verifyLicenseSkipsTrialExpiry(q) ==
  IF q.throws THEN [success |-> FALSE, error |-> "License verification failed"]
  ELSE IF ~q.success
    THEN [success |-> FALSE, error |-> "Failed to verify license status"]
  ELSE IF q.status # {"active"} /\ q.status # {"trial"}
    THEN [success |-> FALSE,
          error |-> "Active subscription or trial required to use MCP bridge"]
  ELSE [success |-> TRUE, error |-> ""]

verifyLicense(q) ==
  IF q.throws THEN [success |-> FALSE, error |-> "License verification failed"]
  ELSE IF ~q.success
    THEN [success |-> FALSE, error |-> "Failed to verify license status"]
  ELSE IF q.status # {"active"} /\ q.status # {"trial"}
    THEN [success |-> FALSE,
          error |-> "Active subscription or trial required to use MCP bridge"]
  ELSE IF q.status = {"trial"} /\ (\E d \in q.daysRemaining : d <= 0)
    THEN [success |-> FALSE,
          error |-> "Trial period has expired. Please upgrade to continue using MCP bridge"]
  ELSE [success |-> TRUE, error |-> ""]

(***************************************************************************)
(* SupabaseService.getLicenseStatus, as a function of what it finds.  Its  *)
(* own catch turns every exception into {success: false}.  (It also writes *)
(* the status 'expired' back to the row of an active license that has      *)
(* expired; the row is an input here.)                                     *)
(***************************************************************************)
\* Math.ceil(ms / DayMs)
CeilDays(ms) == 0 - ((0 - ms) \div DayMs)

Failure == [throws |-> FALSE, success |-> FALSE, status |-> {}, daysRemaining |-> {}]

getLicenseStatus(l) ==
  IF l.outcome \in {"no_user", "error"} THEN Failure
  ELSE IF l.outcome \in {"no_rows", "null"}
    THEN [throws |-> FALSE, success |-> TRUE, status |-> {"none"}, daysRemaining |-> {}]
  ELSE LET license == l.license
           expiresAt == license.expires_at
           daysRemaining == {CeilDays(expiresAt[i]) : i \in DOMAIN expiresAt}
           status == IF expiresAt # <<>> /\ expiresAt[1] < 0 /\ license.status = "active"
                       THEN "expired" ELSE license.status
       IN [throws |-> FALSE, success |-> TRUE, status |-> {status},
           daysRemaining |-> {d \in daysRemaining : d > 0}]

(***************************************************************************)
(* verifyClient: admission by the Host header of the upgrade request.      *)
(***************************************************************************)
verifyClientAnyPort(h) ==
  h # <<>> /\ h[1] \in {"localhost", "127.0.0.1"}

verifyClient(h) ==
  h = <<"localhost", Port>> \/ h = <<"127.0.0.1", Port>>

(***************************************************************************)
(* getStatus().isRunning                                                   *)
(***************************************************************************)
isRunning == httpServer # 0

(***************************************************************************)
(* Initial state: the service right after its constructor.                 *)
(***************************************************************************)
NoFrames == [c \in Conns |-> {}]

BridgeStopped ==
  /\ httpServer = 0 /\ wsServer = 0 /\ cleanupInterval = FALSE
  /\ created = 0 /\ listening = {}
  /\ startPc = "idle" /\ startResult = "none" /\ stopPc = 0

NoConnections ==
  /\ ws = [c \in Conns |-> "none"]
  /\ refusedHost = [c \in Conns |-> <<>>]
  /\ server = [c \in Conns |-> 0]
  /\ elapsed = [c \in Conns |-> 0]
  /\ authTimer = [c \in Conns |-> FALSE]
  /\ closeReason = [c \in Conns |-> ""]
  /\ authenticatedClients = <<>>
  /\ recv = [c \in Conns |-> <<>>]
  /\ pendingAuth = NoFrames /\ pendingFwd = NoFrames
  /\ sent = [c \in Conns |-> <<>>]
  /\ forwarded = NoFrames /\ licenseOk = NoFrames
  /\ inserts = [c \in Conns |-> 0]
  /\ failed = NoFrames
  /\ vlQuery = {} /\ vlResult = {}
  /\ swept = [c \in Conns |-> <<>>]
  /\ httpResponse = <<>>

\* No install is running and none has run.
Idle == [pc |-> "idle", path |-> "none", before |-> AbsentFile,
         backup |-> <<>>, config |-> EmptyDoc]

\* No connector process has been spawned.
NoConnector ==
  [pc |-> "none", script |-> "none", entry |-> <<>>, bridgeUrl |-> <<>>,
   bridgeToken |-> "", authenticated |-> FALSE, stdin |-> 0, read |-> <<>>,
   wire |-> <<>>, peer |-> "none", inbound |-> <<>>, delivered |-> 0,
   stdout |-> <<>>]

NoInstall ==
  /\ connectorScript = "absent"
  /\ install = Idle
  /\ installs = <<>>
  /\ connector = NoConnector

Init ==
  /\ BridgeStopped /\ NoConnections /\ NoInstall /\ configFile = AbsentFile
  /\ budget = [attempts |-> 1, frames |-> MaxLifeMsgs, horizon |-> MaxElapsed,
               requests |-> HttpSamples, installs |-> 1]

(***************************************************************************)
(* Sockets.  ws.close(code, reason) starts the closing handshake of an     *)
(* open socket and does nothing on one that is closing or closed; frames   *)
(* of the peer are still delivered until the socket has closed.  ws.send   *)
(* transmits on an open socket only.                                       *)
(***************************************************************************)
Sessions == DOMAIN authenticatedClients

Closed(w, cs) == [c \in Conns |-> IF c \in cs /\ w[c] = "open" THEN "closing" ELSE w[c]]

Reasons(cs, reason) ==
  [c \in Conns |-> IF c \in cs /\ ws[c] = "open" THEN reason ELSE closeReason[c]]

Transmit(c, frame) ==
  IF ws[c] = "open" THEN [sent EXCEPT ![c] = Append(@, frame)] ELSE sent

WithoutAll(f, cs) == IF cs \cap DOMAIN f = {} THEN f ELSE <<>>

Without(f, cs) == [k \in (DOMAIN f) \ cs |-> f[k]]

With(f, c, v) == [k \in (DOMAIN f) \cup {c} |-> IF k = c THEN v ELSE f[k]]

(***************************************************************************)
(* startBridge                                                             *)
(***************************************************************************)
\* Entry: log, then await this.verifyLicense().
StartBridge ==
  /\ startPc = "idle"
  /\ startPc' = "license" /\ startResult' = "none"
  /\ UNCHANGED <<httpServer, wsServer, cleanupInterval, created, listening,
                 stopPc, connVars, histVars, vlVars, obsVars, installVars>>

LicenseGateIgnored(r) == TRUE

LicenseGate(r) == r.success

\* verifyLicense has returned: give up, or create the servers and listen.
StartBridgeLicensed(q) ==
  /\ startPc = "license"
  /\ LicenseGate(verifyLicense(q)) => created < MaxServers
  /\ IF ~LicenseGate(verifyLicense(q))
       THEN /\ startPc' = "idle" /\ startResult' = "license_failed"
            /\ UNCHANGED <<httpServer, wsServer, created>>
       ELSE /\ created' = created + 1
            /\ httpServer' = created + 1 /\ wsServer' = created + 1
            /\ startPc' = "listen"
            /\ UNCHANGED startResult
  /\ UNCHANGED <<cleanupInterval, listening, stopPc, connVars, histVars, vlVars, obsVars, installVars>>

\* The listen callback or the 'error' event of the server created by this call.
\* The port is taken while a server of this service holds it; it can also be
\* taken by another process.
StartBridgeListened(ok) ==
  /\ startPc = "listen"
  /\ ok => listening = {}
  /\ startPc' = "idle"
  /\ IF ok
       THEN /\ listening' = {created}
            /\ cleanupInterval' = TRUE          \* startSessionCleanup
            /\ startResult' = "success"
       ELSE /\ startResult' = "listen_failed"
            /\ UNCHANGED <<listening, cleanupInterval>>
  /\ UNCHANGED <<httpServer, wsServer, created, stopPc, connVars, histVars, vlVars, obsVars, installVars>>

(***************************************************************************)
(* stopBridge                                                              *)
(***************************************************************************)
\* Entry up to the await of httpServer.close(callback).
StopBridge ==
  /\ stopPc = 0 /\ startPc # "listen"
  /\ cleanupInterval' = FALSE
  /\ ws' = Closed(ws, Sessions)
  /\ closeReason' = Reasons(Sessions, "Bridge service shutting down")
  /\ authenticatedClients' = <<>>
  /\ wsServer' = 0
  /\ listening' = listening \ {httpServer}
  /\ stopPc' = httpServer
  /\ UNCHANGED <<httpServer, created, startPc, startResult, refusedHost, server,
                 elapsed, authTimer, recv, pendingAuth, pendingFwd, sent,
                 histVars, vlVars, obsVars, installVars>>

\* The close callback: it runs once every connection of that server has ended.
StopBridgeClosed ==
  /\ stopPc # 0
  /\ \A c \in Conns : server[c] = stopPc => ws[c] = "closed"
  /\ httpServer' = 0
  /\ stopPc' = 0
  /\ UNCHANGED <<wsServer, cleanupInterval, created, listening, startPc,
                 startResult, connVars, histVars, vlVars, obsVars, installVars>>

(***************************************************************************)
(* Upgrade requests and handleNewConnection                                *)
(***************************************************************************)
\* An upgrade request with Host header h reaches the listening server; the
\* 'connection' event, and with it handleNewConnection, follows only when
\* verifyClient returned true.  Attempts take the connection ids in order.
Upgrade(c, h) ==
  /\ ws[c] = "none" /\ \A d \in Conns : d < c => ws[d] # "none"
  /\ c <= budget.attempts
  /\ listening # {}
  /\ IF verifyClient(h)
       THEN /\ ws' = [ws EXCEPT ![c] = "open"]
            /\ server' = [server EXCEPT ![c] = CHOOSE s \in listening : TRUE]
            /\ elapsed' = [elapsed EXCEPT ![c] = 0]
            /\ authTimer' = [authTimer EXCEPT ![c] = TRUE]
            /\ UNCHANGED refusedHost
       ELSE /\ ws' = [ws EXCEPT ![c] = "refused"]
            /\ refusedHost' = [refusedHost EXCEPT ![c] = h]
            /\ UNCHANGED <<server, elapsed, authTimer>>
  /\ UNCHANGED <<bridgeVars, closeReason, authenticatedClients, recv,
                 pendingAuth, pendingFwd, sent, histVars, vlVars, obsVars, installVars>>

\* The authTimeout callback.
AuthTimeoutFires(c) ==
  /\ authTimer[c] /\ elapsed[c] >= AuthTimeout
  /\ authTimer' = [authTimer EXCEPT ![c] = FALSE]
  /\ ws' = Closed(ws, {c})
  /\ closeReason' = Reasons({c}, "Authentication timeout")
  /\ failed' = [failed EXCEPT ![c] = @ \cup {"timeout"}]
  /\ UNCHANGED <<bridgeVars, refusedHost, server, elapsed, authenticatedClients,
                 recv, pendingAuth, pendingFwd, sent, forwarded, licenseOk,
                 inserts, vlVars, obsVars, installVars>>

\* The number of frames that the connections of cs have received so far.
RECURSIVE Received(_)
Received(cs) ==
  IF cs = {} THEN 0
  ELSE LET c == CHOOSE x \in cs : TRUE IN Len(recv[c]) + Received(cs \ {c})

\* The branch of the 'message' handler that a frame takes.
BranchWithoutReject(c, m) ==
  IF m.type = "malformed" THEN "throw"
  ELSE IF m.type = "auth" /\ c \notin Sessions THEN "auth"
  ELSE "relay"

BranchAuthAgain(c, m) ==
  IF m.type = "malformed" THEN "throw"
  ELSE IF m.type = "auth" THEN "auth"
  ELSE IF c \in Sessions THEN "relay"
  ELSE "reject"

Branch(c, m) ==
  IF m.type = "malformed" THEN "throw"
  ELSE IF m.type = "auth" /\ c \notin Sessions THEN "auth"
  ELSE IF c \in Sessions THEN "relay"
  ELSE "reject"

TokenAcceptedAlways(m) == TRUE

TokenAccepted(m) == m.token = authToken

\* The 'message' handler, up to its first await or its return.  The frame's
\* position in the socket's stream serves as its id.
Message(c, m) ==
  LET id == Len(recv[c]) + 1
      b == Branch(c, m)
  IN
  /\ ws[c] \in {"open", "closing"} /\ Received(Conns) < budget.frames
  /\ recv' = [recv EXCEPT ![c] = Append(@, m)]
  /\ CASE b = "throw" ->
            /\ ws' = Closed(ws, {c})
            /\ closeReason' = Reasons({c}, "Message processing error")
            /\ UNCHANGED <<authTimer, authenticatedClients, pendingAuth, pendingFwd,
                           forwarded, failed>>
       [] b = "auth" /\ ~TokenAccepted(m) ->
            /\ authTimer' = [authTimer EXCEPT ![c] = FALSE]
            /\ ws' = Closed(ws, {c})
            /\ closeReason' = Reasons({c}, "Invalid authentication token")
            /\ failed' = [failed EXCEPT ![c] = @ \cup {"token"}]
            /\ UNCHANGED <<authenticatedClients, pendingAuth, pendingFwd, forwarded>>
       [] b = "auth" /\ TokenAccepted(m) ->
            /\ authTimer' = [authTimer EXCEPT ![c] = FALSE]
            /\ pendingAuth' = [pendingAuth EXCEPT ![c] = @ \cup {id}]
            /\ UNCHANGED <<ws, closeReason, authenticatedClients, pendingFwd,
                           forwarded, failed>>
       [] b = "relay" /\ c \notin Sessions ->      \* handleMCPMessage: no client
            UNCHANGED <<ws, closeReason, authTimer, authenticatedClients,
                        pendingAuth, pendingFwd, forwarded, failed>>
       [] b = "relay" /\ c \in Sessions ->
            /\ authenticatedClients' =
                 [authenticatedClients EXCEPT ![c] = [lastActivity |-> elapsed[c]]]
            /\ pendingFwd' = [pendingFwd EXCEPT ![c] = @ \cup {id}]
            /\ forwarded' = [forwarded EXCEPT ![c] = @ \cup {id}]
            /\ UNCHANGED <<ws, closeReason, authTimer, pendingAuth, failed>>
       [] b = "reject" ->
            /\ ws' = Closed(ws, {c})
            /\ closeReason' = Reasons({c}, "Authentication required")
            /\ UNCHANGED <<authTimer, authenticatedClients, pendingAuth, pendingFwd,
                           forwarded, failed>>
  /\ UNCHANGED <<bridgeVars, refusedHost, server, elapsed, sent, licenseOk,
                 inserts, vlVars, obsVars, installVars>>

\* handleAuthentication resumes with the result of its own verifyLicense call.
HandleAuthenticationResumed(c, id, q) ==
  /\ id \in pendingAuth[c]
  /\ pendingAuth' = [pendingAuth EXCEPT ![c] = @ \ {id}]
  /\ licenseOk' = IF verifyLicense(q).success
                    THEN [licenseOk EXCEPT ![c] = @ \cup {id}] ELSE licenseOk
  /\ IF ~LicenseGate(verifyLicense(q))
       THEN /\ ws' = Closed(ws, {c})
            /\ closeReason' = Reasons({c}, "License verification failed")
            /\ failed' = [failed EXCEPT ![c] = @ \cup {"license"}]
            /\ UNCHANGED <<authenticatedClients, sent, inserts>>
       ELSE /\ authenticatedClients' =
                 With(authenticatedClients, c, [lastActivity |-> elapsed[c]])
            /\ sent' = Transmit(c, [type |-> "auth_success", id |-> id])
            /\ inserts' = [inserts EXCEPT ![c] = @ + 1]
            /\ UNCHANGED <<ws, closeReason, failed>>
  /\ UNCHANGED <<bridgeVars, refusedHost, server, elapsed, authTimer, recv,
                 pendingFwd, forwarded, vlVars, obsVars, installVars>>

\* The frame handleMCPMessage sends back once forwardToMCPServer has settled.
ReplyDropsError(id, outcome) ==
  [type |-> IF outcome = "ok" THEN "response" ELSE "none", id |-> id]

Reply(id, outcome) ==
  [type |-> IF outcome = "ok" THEN "response" ELSE "error", id |-> id]

\* handleMCPMessage resumes: forwardToMCPServer returned the remote response,
\* or threw (no credentials, remote unreachable, status not 2xx).
HandleMCPMessageResumed(c, id, outcome) ==
  /\ id \in pendingFwd[c]
  /\ pendingFwd' = [pendingFwd EXCEPT ![c] = @ \ {id}]
  /\ sent' = IF Reply(id, outcome).type = "none" THEN sent
             ELSE Transmit(c, Reply(id, outcome))
  /\ UNCHANGED <<bridgeVars, ws, refusedHost, server, elapsed, authTimer,
                 closeReason, authenticatedClients, recv, pendingAuth, histVars,
                 vlVars, obsVars, installVars>>

\* The 'error' event of a socket: its handler runs and the socket is torn
\* down; its 'close' event follows.
SocketError(c) ==
  /\ ws[c] \in {"open", "closing"}
  /\ ws' = [ws EXCEPT ![c] = "errored"]
  /\ authTimer' = [authTimer EXCEPT ![c] = FALSE]
  /\ authenticatedClients' = Without(authenticatedClients, {c})
  /\ UNCHANGED <<bridgeVars, refusedHost, server, elapsed, closeReason, recv,
                 pendingAuth, pendingFwd, sent, histVars, vlVars, obsVars, installVars>>

\* The 'close' event of a socket: the peer closed it, the closing handshake
\* the bridge started has completed, or the socket was torn down.
SocketClosed(c) ==
  /\ ws[c] \in {"open", "closing", "errored"}
  /\ ws' = [ws EXCEPT ![c] = "closed"]
  /\ authTimer' = [authTimer EXCEPT ![c] = FALSE]
  /\ authenticatedClients' = Without(authenticatedClients, {c})
  /\ UNCHANGED <<bridgeVars, refusedHost, server, elapsed, closeReason, recv,
                 pendingAuth, pendingFwd, sent, histVars, vlVars, obsVars, installVars>>

\* Time passes for the connections whose socket has not closed yet and for
\* those that have a session in the registry.  A timer that is due fires
\* before time moves on.
Live == {c \in Conns : ws[c] \in {"open", "closing", "errored"} \/ c \in Sessions}

Advance(d) ==
  /\ Live # {}
  /\ \A c \in Live : elapsed[c] + d <= budget.horizon
  /\ \A c \in Live : authTimer[c] => elapsed[c] + d <= AuthTimeout
  /\ elapsed' = [c \in Conns |-> IF c \in Live THEN elapsed[c] + d ELSE elapsed[c]]
  /\ UNCHANGED <<bridgeVars, ws, refusedHost, server, authTimer, closeReason,
                 authenticatedClients, recv, pendingAuth, pendingFwd, sent,
                 histVars, vlVars, obsVars, installVars>>

\* A tick of the interval of startSessionCleanup.  A tick's instant bears no
\* relation to the instants of a connection, so it can come at any time while
\* the interval is set.
timeSinceActivity(c) == elapsed[c] - authenticatedClients[c].lastActivity

Expired(c) == timeSinceActivity(c) > sessionTimeout

SweepTick ==
  LET expiredSessions == {c \in Sessions : Expired(c)}
  IN
  /\ cleanupInterval
  /\ ws' = Closed(ws, expiredSessions)
  /\ closeReason' = Reasons(expiredSessions, "Session expired")
  /\ authenticatedClients' = Without(authenticatedClients, expiredSessions)
  /\ swept' = [c \in Conns |->
                 IF c \in Sessions
                   THEN <<[idle |-> timeSinceActivity(c), kept |-> c \notin expiredSessions]>>
                   ELSE swept[c]]
  /\ UNCHANGED <<bridgeVars, refusedHost, server, elapsed, authTimer, recv,
                 pendingAuth, pendingFwd, sent, histVars, vlVars, httpResponse,
                 installVars>>

(***************************************************************************)
(* setupHttpEndpoints: the 'request' handler of the http server.           *)
(***************************************************************************)
Respond(req) ==
  IF req.method = "OPTIONS"
    THEN [status |-> 200, body |-> "empty", authToken |-> {}]
  ELSE IF req.url = "/health"
    THEN [status |-> 200, body |-> "health", authToken |-> {}]
  ELSE IF req.url = "/config" /\ req.method = "GET"
    THEN [status |-> 200, body |-> "config", authToken |-> {authToken}]
  ELSE [status |-> 404, body |-> "Not Found", authToken |-> {}]

\* A plain http request reaches the listening server.
HttpRequest(req) ==
  /\ listening # {}
  /\ req \in budget.requests
  /\ httpResponse' = <<[request |-> req, response |-> Respond(req)]>>
  /\ UNCHANGED <<bridgeVars, connVars, histVars, vlVars, swept, installVars>>

(***************************************************************************)
(* The bridge install of MCPLauncherService: updateClaudeDesktopConfigFor- *)
(* Bridge with its two paths, writeBridgeConfig ("new": getClaudeConfigPath*)
(* found no file) and updateExistingConfigForBridge ("existing").          *)
(***************************************************************************)
\* JavaScript truthiness of config.mcpServers[name].
Truthy(e) == e # <<>> /\ e # <<JsonNull>>

\* The try block of both paths: copy the file to its backup, read it, parse
\* it unless it is blank.  Whatever fails in it is caught and logged, and the
\* config stays {}.
ReadConfig(f, backupOk, readOk) ==
  IF backupOk /\ readOk /\ f.state = "json" THEN f.doc ELSE EmptyDoc

\* if (!config.mcpServers) config.mcpServers = {}
EnsureServers(d) ==
  IF d.kind # "object" THEN [d EXCEPT !.kind = "object", !.servers = EmptyServers] ELSE d

\* updateExistingConfigForBridge only: delete the entries of ourServerNames.
RemoveOurs(d) ==
  [d EXCEPT !.servers = [n \in ServerNames |->
                           IF n \in ourServerNames /\ Truthy(d.servers[n])
                             THEN <<>> ELSE d.servers[n]]]

Prepared(path, d) ==
  IF path = "existing" THEN RemoveOurs(EnsureServers(d)) ELSE EnsureServers(d)

\* if (!config.mcpServers.googleClassroom)
NeedsEntry(d) == ~Truthy(d.servers["googleClassroom"])

Merged(path, d) ==
  IF NeedsEntry(Prepared(path, d))
    THEN [Prepared(path, d) EXCEPT !.servers["googleClassroom"] = <<BridgeEntry>>]
    ELSE Prepared(path, d)

\* A run of the install has ended: it returned, or it threw and
\* launchClaudeWithMCP returns {success: false, error}.  The record keeps the
\* servers that listen at that moment; while launch is "continues" the call
\* of launchClaudeWithMCP has not returned yet.
Finished(after, result, step) ==
  /\ installs' = Append(installs, [path |-> install.path, before |-> install.before,
                                   backup |-> install.backup, after |-> after,
                                   result |-> result, failed |-> step,
                                   launch |-> IF result = "error" THEN "failed"
                                                                  ELSE "continues",
                                   listeners |-> listening])
  /\ install' = Idle

\* Entry of updateClaudeDesktopConfigForBridge, which launchClaudeWithMCP calls
\* once startBridge has returned success: the path is chosen and, on the
\* "new" path, the config directory is made.
UpdateClaudeDesktopConfigForBridge(path, mkdirOk) ==
  /\ install.pc = "idle" /\ Len(installs) < budget.installs
  /\ startResult = "success"
  /\ path = "existing" => configFile.state # "absent"
  /\ IF path = "new" /\ ~mkdirOk
       THEN /\ installs' = Append(installs,
                   [path |-> path, before |-> configFile, backup |-> <<>>,
                    after |-> configFile, result |-> "error", failed |-> "mkdir",
                    launch |-> "failed", listeners |-> listening])
            /\ UNCHANGED install
       ELSE /\ install' = [pc |-> "read", path |-> path, before |-> configFile,
                           backup |-> <<>>, config |-> EmptyDoc]
            /\ UNCHANGED installs
  /\ UNCHANGED <<bridgeVars, connVars, histVars, vlVars, obsVars, configFile,
                 connectorScript, connector>>

\* The try block: backup, read, parse.  writeBridgeConfig skips it when the
\* file does not exist.
BackupAndRead(backupOk, readOk) ==
  /\ install.pc = "read"
  /\ install' =
       IF configFile.state = "absent"
         THEN [install EXCEPT !.pc = "merge"]
         ELSE [install EXCEPT !.pc = "merge",
                              !.backup = IF backupOk THEN <<configFile>> ELSE <<>>,
                              !.config = ReadConfig(configFile, backupOk, readOk)]
  /\ UNCHANGED <<bridgeVars, connVars, histVars, vlVars, obsVars, configFile,
                 connectorScript, installs, connector>>

\* The rest of the path: the merge in memory, the connector script when the
\* entry is to be added, and fs.writeFile of the document.
MergeAndWrite(scriptOutcome, writeOutcome) ==
  LET needed == NeedsEntry(Prepared(install.path, install.config))
      doc == Merged(install.path, install.config)
  IN
  /\ install.pc = "merge"
  /\ connectorScript' =
       IF ~needed \/ scriptOutcome = "failed_untouched" THEN connectorScript
       ELSE IF scriptOutcome = "ok" THEN "written" ELSE "partial"
  /\ IF needed /\ scriptOutcome # "ok"
       THEN /\ UNCHANGED configFile
            /\ Finished(configFile, "error", "script")
       ELSE /\ configFile' = CASE writeOutcome = "ok" -> Stringified(doc)
                               [] writeOutcome = "failed_untouched" -> configFile
                               [] writeOutcome = "failed_partial" -> PartialFile
            /\ Finished(configFile', IF writeOutcome = "ok" THEN "ok" ELSE "error",
                        IF writeOutcome = "ok" THEN "none" ELSE "write")
  /\ UNCHANGED <<bridgeVars, connVars, histVars, vlVars, obsVars, connector>>

\* stopMCPServer: it kills this.mcpServerProcess, the child process of the
\* direct mode; the bridge mode has none, and the listeners stay as they are.
stopMCPServer(ls) == ls

\* The rest of launchClaudeWithMCP after the install has returned:
\* launchClaudeDesktop resolves; when it failed, stopMCPServer is awaited and
\* the failure is returned.
LaunchClaudeDesktop(ok) ==
  LET n == Len(installs)
  IN
  /\ install.pc = "idle" /\ n > 0 /\ installs[n].launch = "continues"
  /\ installs' =
       [installs EXCEPT
          ![n].launch = IF ok THEN "launched" ELSE "failed",
          ![n].listeners = IF ok THEN listening ELSE stopMCPServer(listening)]
  /\ UNCHANGED <<bridgeVars, connVars, histVars, vlVars, obsVars, configFile,
                 connectorScript, install, connector>>

(***************************************************************************)
(* The connector process: the client spawns the command of the            *)
(* googleClassroom entry with the entry's env; the script connects to the  *)
(* bridge, authenticates and pipes stdin to the socket and the socket to   *)
(* stdout.  connector.wire holds the frames it has sent, connector.inbound *)
(* the frames the bridge has sent to it.                                   *)
(***************************************************************************)
\* The environment that the entry gives to the process.
EntryEnv(e) ==
  [n \in EnvNames |->
     IF n = "MCP_BRIDGE_URL" THEN <<e.env.MCP_BRIDGE_URL>>
     ELSE IF n = "MCP_BRIDGE_TOKEN" THEN <<e.env.MCP_BRIDGE_TOKEN>>
     ELSE <<>>]

\* The constructor of the connector: process.env.X || default.
bridgeUrl(script, env) ==
  LET name == IF script = "generated" THEN "BRIDGE_URL" ELSE "MCP_BRIDGE_URL"
  IN IF env[name] # <<>> THEN env[name][1] ELSE <<"ws://localhost", 5123>>

bridgeToken(script, env) ==
  LET name == IF script = "generated" THEN "BRIDGE_TOKEN" ELSE "MCP_BRIDGE_TOKEN"
  IN IF env[name] # <<>> THEN env[name][1]
     ELSE IF script = "generated" THEN "secure-bridge-token" ELSE "default-token"

\* The client spawns the entry's command; the script's constructor runs and
\* connect() creates the socket and registers the handlers.
ConnectorStart(script) ==
  /\ connector.pc = "none"
  /\ configFile.state = "json"
  /\ configFile.doc.servers["googleClassroom"] = <<BridgeEntry>>
  /\ script = "generated" => connectorScript = "written"
  /\ connector' =
       [NoConnector EXCEPT
          !.pc = "connecting", !.script = script,
          !.entry = configFile.doc.servers["googleClassroom"],
          !.bridgeUrl = bridgeUrl(script, EntryEnv(BridgeEntry)),
          !.bridgeToken = bridgeToken(script, EntryEnv(BridgeEntry))]
  /\ UNCHANGED <<bridgeVars, connVars, histVars, vlVars, obsVars, configFile,
                 connectorScript, install, installs>>

\* The 'open' event of the socket, whose handler sends the auth frame; or its
\* 'error' event when the connection cannot be made, whose handler exits.
\* The Host header of the upgrade request is that of the url.
ConnectorOpened(ok) ==
  /\ connector.pc = "connecting"
  /\ ok => /\ listening # {}
           /\ verifyClient(<<"localhost", connector.bridgeUrl[2]>>)
  /\ connector' =
       IF ok
         THEN [connector EXCEPT
                 !.pc = "open", !.peer = "pending",
                 !.wire = <<[type |-> "auth", token |-> connector.bridgeToken, id |-> 0]>>]
         ELSE [connector EXCEPT !.pc = "exited"]
  /\ UNCHANGED <<bridgeVars, connVars, histVars, vlVars, obsVars, configFile,
                 connectorScript, install, installs>>

\* The bridge handles the auth frame (handleAuthentication): it sends
\* auth_success, or it closes the socket.
BridgeAuthenticates(q) ==
  LET accepted == TokenAccepted(connector.wire[1]) /\ LicenseGate(verifyLicense(q))
  IN
  /\ connector.pc = "open" /\ connector.peer = "pending"
  /\ connector' =
       IF accepted
         THEN [connector EXCEPT
                 !.peer = "session",
                 !.inbound = Append(@, [type |-> "auth_success", id |-> 0])]
         ELSE [connector EXCEPT !.peer = "closed"]
  /\ UNCHANGED <<bridgeVars, connVars, histVars, vlVars, obsVars, configFile,
                 connectorScript, install, installs>>

\* The bridge replies to a relayed frame (handleMCPMessage).
BridgeReplies(id, outcome) ==
  /\ connector.pc = "open" /\ connector.peer = "session"
  /\ \E i \in DOMAIN connector.wire :
        connector.wire[i].type = "call" /\ connector.wire[i].id = id
  /\ \A i \in DOMAIN connector.inbound : connector.inbound[i].id # id
  /\ connector' = [connector EXCEPT !.inbound = Append(@, Reply(id, outcome))]
  /\ UNCHANGED <<bridgeVars, connVars, histVars, vlVars, obsVars, configFile,
                 connectorScript, install, installs>>

\* The 'data' event of process.stdin: the client has written a message.
ConnectorStdin ==
  LET id == connector.stdin + 1
  IN
  /\ connector.pc \in {"connecting", "open"} /\ connector.stdin < MaxStdin
  /\ connector' =
       [connector EXCEPT
          !.stdin = id,
          !.read = IF connector.pc = "open" THEN Append(@, id) ELSE @,
          !.wire = IF connector.authenticated /\ connector.pc = "open"
                     THEN Append(@, [type |-> "call", token |-> "none", id |-> id])
                     ELSE @]
  /\ UNCHANGED <<bridgeVars, connVars, histVars, vlVars, obsVars, configFile,
                 connectorScript, install, installs>>

\* The 'message' event of the socket.
ConnectorMessage ==
  LET message == connector.inbound[connector.delivered + 1]
  IN
  /\ connector.pc = "open" /\ connector.delivered < Len(connector.inbound)
  /\ connector' =
       IF message.type = "auth_success"
         THEN [connector EXCEPT !.delivered = @ + 1, !.authenticated = TRUE]
         ELSE [connector EXCEPT !.delivered = @ + 1, !.stdout = Append(@, message)]
  /\ UNCHANGED <<bridgeVars, connVars, histVars, vlVars, obsVars, configFile,
                 connectorScript, install, installs>>

\* The 'close' event of the socket, after the bridge has closed it.
ConnectorClosed ==
  /\ connector.pc = "open" /\ connector.peer = "closed"
  /\ connector' = [connector EXCEPT !.pc = "exited"]
  /\ UNCHANGED <<bridgeVars, connVars, histVars, vlVars, obsVars, configFile,
                 connectorScript, install, installs>>

Next ==
  \/ StartBridge
  \/ \E q \in LicenseSamples : StartBridgeLicensed(q)
  \/ \E ok \in BOOLEAN : StartBridgeListened(ok)
  \/ StopBridge
  \/ StopBridgeClosed
  \/ \E c \in Conns, h \in Hosts : Upgrade(c, h)
  \/ \E c \in Conns : AuthTimeoutFires(c)
  \/ \E c \in Conns, m \in Messages : Message(c, m)
  \/ \E c \in Conns, id \in 1..MaxMsgs, q \in LicenseSamples : HandleAuthenticationResumed(c, id, q)
  \/ \E c \in Conns, id \in 1..MaxMsgs, o \in ForwardOutcomes : HandleMCPMessageResumed(c, id, o)
  \/ \E c \in Conns : SocketError(c)
  \/ \E c \in Conns : SocketClosed(c)
  \/ SweepTick
  \/ \E req \in HttpRequests : HttpRequest(req)
  \/ \E path \in {"new", "existing"}, ok \in BOOLEAN : UpdateClaudeDesktopConfigForBridge(path, ok)
  \/ \E backupOk, readOk \in BOOLEAN : BackupAndRead(backupOk, readOk)
  \/ \E so, wo \in WriteOutcomes : MergeAndWrite(so, wo)
  \/ \E ok \in BOOLEAN : LaunchClaudeDesktop(ok)
  \/ \E script \in Scripts : ConnectorStart(script)
  \/ \E ok \in BOOLEAN : ConnectorOpened(ok)
  \/ \E q \in LicenseSamples : BridgeAuthenticates(q)
  \/ \E id \in 1..MaxStdin, o \in ForwardOutcomes : BridgeReplies(id, o)
  \/ ConnectorStdin
  \/ ConnectorMessage
  \/ ConnectorClosed
  \/ \E d \in Steps : Advance(d)

Spec == Init /\ [][Next]_vars

(***************************************************************************)
(* The protocol of one connection of a bridge that is running: the state   *)
(* after a startBridge call that returned success, and the handlers of the *)
(* connection.                                                             *)
(***************************************************************************)
BridgeRunning ==
  /\ httpServer = 1 /\ wsServer = 1 /\ cleanupInterval = TRUE
  /\ created = 1 /\ listening = {1}
  /\ startPc = "idle" /\ startResult = "success" /\ stopPc = 0

InitRunning ==
  /\ BridgeRunning /\ NoConnections /\ NoInstall /\ configFile = AbsentFile
  /\ budget = [attempts |-> 1, frames |-> MaxMsgs, horizon |-> MaxElapsed,
               requests |-> {}, installs |-> 0]

NextProtocol ==
  \/ \E c \in Conns, h \in Hosts : Upgrade(c, h)
  \/ \E c \in Conns : AuthTimeoutFires(c)
  \/ \E c \in Conns, m \in Messages : Message(c, m)
  \/ \E c \in Conns, id \in 1..MaxMsgs, q \in LicenseSamples : HandleAuthenticationResumed(c, id, q)
  \/ \E c \in Conns, id \in 1..MaxMsgs, o \in ForwardOutcomes : HandleMCPMessageResumed(c, id, o)
  \/ \E c \in Conns : SocketError(c)
  \/ \E c \in Conns : SocketClosed(c)
  \/ \E d \in Steps : Advance(d)

SpecProtocol == InitRunning /\ [][NextProtocol]_vars

(***************************************************************************)
(* The session sweep: one connection of a running bridge, with time that   *)
(* advances around the idle timeout.                                       *)
(***************************************************************************)
InitSweep ==
  /\ BridgeRunning /\ NoConnections /\ NoInstall /\ configFile = AbsentFile
  /\ budget = [attempts |-> 1, frames |-> MaxLifeMsgs, horizon |-> MaxIdle,
               requests |-> {}, installs |-> 0]

NextSweep ==
  \/ \E c \in Conns, h \in Hosts : Upgrade(c, h)
  \/ \E c \in Conns, m \in Messages : Message(c, m)
  \/ \E c \in Conns, id \in 1..MaxMsgs, q \in LicenseSamples : HandleAuthenticationResumed(c, id, q)
  \/ \E c \in Conns, id \in 1..MaxMsgs, o \in ForwardOutcomes : HandleMCPMessageResumed(c, id, o)
  \/ \E c \in Conns : SocketError(c)
  \/ \E c \in Conns : SocketClosed(c)
  \/ SweepTick
  \/ \E d \in SweepSteps : Advance(d)

SpecSweep == InitSweep /\ [][NextSweep]_vars

(***************************************************************************)
(* Concurrent sessions: two connections of a running bridge, with the      *)
(* session sweep.                                                          *)
(***************************************************************************)
InitSessions ==
  /\ BridgeRunning /\ NoConnections /\ NoInstall /\ configFile = AbsentFile
  /\ budget = [attempts |-> 2, frames |-> MaxPairMsgs, horizon |-> MaxPairIdle,
               requests |-> {}, installs |-> 0]

NextSessions ==
  \/ \E c \in Conns, h \in LoopbackHosts : Upgrade(c, h)
  \/ \E c \in Conns, m \in Messages : Message(c, m)
  \/ \E c \in Conns, id \in 1..MaxMsgs, q \in LicenseSamples : HandleAuthenticationResumed(c, id, q)
  \/ \E c \in Conns, id \in 1..MaxMsgs, o \in ForwardOutcomes : HandleMCPMessageResumed(c, id, o)
  \/ \E c \in Conns : SocketError(c)
  \/ \E c \in Conns : SocketClosed(c)
  \/ SweepTick
  \/ \E d \in PairSteps : Advance(d)

SpecSessions == InitSessions /\ [][NextSessions]_vars

(***************************************************************************)
(* Shutdown: one connection of a running bridge, and stopBridge and        *)
(* startBridge calls at any moment of its protocol.                        *)
(***************************************************************************)
InitShutdown ==
  /\ BridgeRunning /\ NoConnections /\ NoInstall /\ configFile = AbsentFile
  /\ budget = [attempts |-> 1, frames |-> MaxLifeMsgs, horizon |-> MaxElapsed,
               requests |-> {}, installs |-> 0]

NextShutdown ==
  \/ StartBridge
  \/ \E q \in LicenseSamples : StartBridgeLicensed(q)
  \/ \E ok \in BOOLEAN : StartBridgeListened(ok)
  \/ StopBridge
  \/ StopBridgeClosed
  \/ \E c \in Conns, h \in Hosts : Upgrade(c, h)
  \/ \E c \in Conns : AuthTimeoutFires(c)
  \/ \E c \in Conns, m \in Messages : Message(c, m)
  \/ \E c \in Conns, id \in 1..MaxMsgs, q \in LicenseSamples : HandleAuthenticationResumed(c, id, q)
  \/ \E c \in Conns, id \in 1..MaxMsgs, o \in ForwardOutcomes : HandleMCPMessageResumed(c, id, o)
  \/ \E c \in Conns : SocketError(c)
  \/ \E c \in Conns : SocketClosed(c)
  \/ \E d \in Steps : Advance(d)

SpecShutdown == InitShutdown /\ [][NextShutdown]_vars

(***************************************************************************)
(* The license gate in composition with getLicenseStatus: startBridge      *)
(* calls and one connection, where every license check of the bridge gets  *)
(* what getLicenseStatus returns for what it finds.                        *)
(***************************************************************************)
InitEntitlement ==
  /\ BridgeStopped /\ NoConnections /\ NoInstall /\ configFile = AbsentFile
  /\ budget = [attempts |-> 1, frames |-> MaxLifeMsgs, horizon |-> MaxElapsed,
               requests |-> {}, installs |-> 0]

NextEntitlement ==
  \/ StartBridge
  \/ \E l \in LicenseLookups : StartBridgeLicensed(getLicenseStatus(l))
  \/ \E ok \in BOOLEAN : StartBridgeListened(ok)
  \/ \E c \in Conns, h \in Hosts : Upgrade(c, h)
  \/ \E c \in Conns, m \in Messages : Message(c, m)
  \/ \E c \in Conns, id \in 1..MaxMsgs, l \in LicenseLookups :
        HandleAuthenticationResumed(c, id, getLicenseStatus(l))
  \/ \E c \in Conns, id \in 1..MaxMsgs, o \in ForwardOutcomes : HandleMCPMessageResumed(c, id, o)
  \/ \E c \in Conns : SocketClosed(c)

SpecEntitlement == InitEntitlement /\ [][NextEntitlement]_vars

(***************************************************************************)
(* The lifecycle of the listener: startBridge and stopBridge calls, with   *)
(* peers that connect and disconnect but send no frame.                    *)
(***************************************************************************)
InitLifecycle ==
  /\ BridgeStopped /\ NoConnections /\ NoInstall /\ configFile = AbsentFile
  /\ budget = [attempts |-> 2, frames |-> 0, horizon |-> MaxElapsed,
               requests |-> {}, installs |-> 0]

NextLifecycle ==
  \/ StartBridge
  \/ \E q \in LicenseSamples : StartBridgeLicensed(q)
  \/ \E ok \in BOOLEAN : StartBridgeListened(ok)
  \/ StopBridge
  \/ StopBridgeClosed
  \/ \E c \in Conns, h \in Hosts : Upgrade(c, h)
  \/ \E c \in Conns : AuthTimeoutFires(c)
  \/ \E c \in Conns : SocketError(c)
  \/ \E c \in Conns : SocketClosed(c)
  \/ \E d \in Steps : Advance(d)

SpecLifecycle == InitLifecycle /\ [][NextLifecycle]_vars

(***************************************************************************)
(* The http side channel: startBridge and stopBridge calls, and plain http *)
(* requests to the server while it listens.                                *)
(***************************************************************************)
InitHttp ==
  /\ BridgeStopped /\ NoConnections /\ NoInstall /\ configFile = AbsentFile
  /\ budget = [attempts |-> 0, frames |-> 0, horizon |-> MaxElapsed,
               requests |-> HttpRequests, installs |-> 0]

NextHttp ==
  \/ StartBridge
  \/ \E q \in LicenseSamples : StartBridgeLicensed(q)
  \/ \E ok \in BOOLEAN : StartBridgeListened(ok)
  \/ StopBridge
  \/ StopBridgeClosed
  \/ \E req \in HttpRequests : HttpRequest(req)

SpecHttp == InitHttp /\ [][NextHttp]_vars

(***************************************************************************)
(* The bridge install on its own: the bridge runs, the config file is any  *)
(* file the user can have, and the install runs up to MaxInstalls times.   *)
(***************************************************************************)
InitInstall ==
  /\ BridgeRunning /\ NoConnections /\ NoInstall
  /\ configFile \in {AbsentFile} \cup ExistingFiles
  /\ budget = [attempts |-> 0, frames |-> 0, horizon |-> MaxElapsed,
               requests |-> {}, installs |-> MaxInstalls]

NextInstall ==
  \/ \E path \in {"new", "existing"}, ok \in BOOLEAN : UpdateClaudeDesktopConfigForBridge(path, ok)
  \/ \E backupOk, readOk \in BOOLEAN : BackupAndRead(backupOk, readOk)
  \/ \E so, wo \in WriteOutcomes : MergeAndWrite(so, wo)
  \/ \E ok \in BOOLEAN : LaunchClaudeDesktop(ok)

SpecInstall == InitInstall /\ [][NextInstall]_vars

(***************************************************************************)
(* The connector: the bridge runs, the install runs once on a client that  *)
(* has no config file yet, and the client spawns the connector.            *)
(***************************************************************************)
InitConnector ==
  /\ BridgeRunning /\ NoConnections /\ NoInstall /\ configFile = AbsentFile
  /\ budget = [attempts |-> 0, frames |-> 0, horizon |-> MaxElapsed,
               requests |-> {}, installs |-> 1]

NextConnector ==
  \/ \E path \in {"new", "existing"}, ok \in BOOLEAN : UpdateClaudeDesktopConfigForBridge(path, ok)
  \/ \E backupOk, readOk \in BOOLEAN : BackupAndRead(backupOk, readOk)
  \/ \E so, wo \in WriteOutcomes : MergeAndWrite(so, wo)
  \/ \E script \in Scripts : ConnectorStart(script)
  \/ \E ok \in BOOLEAN : ConnectorOpened(ok)
  \/ \E q \in LicenseSamples : BridgeAuthenticates(q)
  \/ \E id \in 1..MaxStdin, o \in ForwardOutcomes : BridgeReplies(id, o)
  \/ ConnectorStdin
  \/ ConnectorMessage
  \/ ConnectorClosed

SpecConnector == InitConnector /\ [][NextConnector]_vars

(***************************************************************************)
(* verifyLicense on its own: a query outcome is drawn, then verifyLicense  *)
(* is applied to it.                                                       *)
(***************************************************************************)
DrawLicenseQuery(q) ==
  /\ vlQuery' = {q} /\ vlResult' = {}
  /\ UNCHANGED <<bridgeVars, connVars, histVars, budget, obsVars, installVars>>

ApplyVerifyLicense ==
  /\ vlQuery # {} /\ vlResult = {}
  /\ vlResult' = {verifyLicense(q) : q \in vlQuery}
  /\ UNCHANGED <<bridgeVars, connVars, histVars, budget, vlQuery, obsVars, installVars>>

NextLicense ==
  \/ \E q \in LicenseQueries : DrawLicenseQuery(q)
  \/ ApplyVerifyLicense

SpecLicense == Init /\ [][NextLicense]_vars

(***************************************************************************)
(* Properties                                                              *)
(***************************************************************************)
\* The entitlement policy as the design states it: the query succeeded and
\* the status is active, or trial with daysRemaining absent or positive.
Entitled(q) ==
  /\ ~q.throws /\ q.success
  /\ \/ q.status = {"active"}
     \/ q.status = {"trial"} /\ \A d \in q.daysRemaining : d > 0

AuthSuccessCount(c) ==
  Cardinality({i \in 1..Len(sent[c]) : sent[c][i].type = "auth_success"})

\* C1: an upgrade request whose Host header is not exactly localhost:<port>
\* or 127.0.0.1:<port> is refused: handleNewConnection does not run for it
\* (no timer, no handlers, no socket state) and the registry is unchanged,
\* then and ever after.
C1_NonLoopbackHostRefused ==
  /\ [][\A c \in Conns, h \in Hosts :
          (h \notin LoopbackHosts /\ Upgrade(c, h)) =>
             /\ ws'[c] = "refused"
             /\ UNCHANGED <<authenticatedClients, authTimer, server, elapsed,
                            closeReason, recv, pendingAuth, pendingFwd, sent>>]_vars
  /\ [](\A c \in Conns :
          ws[c] = "refused" =>
             /\ refusedHost[c] \notin LoopbackHosts
             /\ ~authTimer[c] /\ c \notin Sessions /\ recv[c] = <<>>)

C1_Witness ==
  \E c, d \in Conns :
     /\ ws[c] = "refused" /\ refusedHost[c] = <<"localhost", 80>>
     /\ ws[d] = "open" /\ Sessions = {}

\* C8: verifyLicense returns success exactly when the query outcome is
\* entitled; every other outcome, a throwing query included, is a failure.
C8_VerifyLicensePolicy ==
  \A q \in vlQuery, r \in vlResult : r.success <=> Entitled(q)

C8_Witness ==
  \E q \in vlQuery, r \in vlResult :
     q.success /\ q.status = {"trial"} /\ q.daysRemaining = {0} /\ ~r.success

\* C9 (as amended): a server is created, and so can start to listen, only
\* in the step of a startBridge call in which its own verifyLicense call
\* returned an entitled outcome; when that check fails the call returns
\* success:false and creates no server and no sweep timer, and isRunning is
\* left as it was.
C9_StartBridgeLicenseGate ==
  /\ [][created' # created =>
          \E q \in LicenseSamples : Entitled(q) /\ StartBridgeLicensed(q)]_vars
  /\ [][\A s \in listening' \ listening : startPc = "listen" /\ s = created]_vars
  /\ [][\A q \in LicenseSamples :
          (~Entitled(q) /\ StartBridgeLicensed(q)) =>
             /\ startResult' = "license_failed"
             /\ UNCHANGED <<httpServer, wsServer, created, listening, cleanupInterval>>
             /\ isRunning' = isRunning]_vars

C9_Witness ==
  /\ startResult = "license_failed"
  /\ created = 0 /\ listening = {} /\ ~cleanupInterval /\ ~isRunning

\* C9 (as claimed): after a startBridge call whose license check failed, the
\* bridge is reported as not running.
C9_FailedStartReportsNotRunning ==
  startResult = "license_failed" => ~isRunning

\* C2: a frame that is not an auth frame and arrives while the session is
\* not in the registry, also while an earlier auth frame's license check is
\* pending, is not forwarded and makes the bridge close the socket; and a
\* frame is handed to forwardToMCPServer only in the step in which it
\* arrives, so it is never kept to be forwarded later.
C2_NoRelayBeforeAuth ==
  /\ [][\A c \in Conns, m \in Messages :
          (m.type # "auth" /\ c \notin Sessions /\ Message(c, m)) =>
             /\ ws'[c] = "closing" /\ closeReason'[c] # ""
             /\ forwarded' = forwarded /\ pendingFwd' = pendingFwd]_vars
  /\ [][\A c \in Conns : \A k \in forwarded'[c] \ forwarded[c] :
          k = Len(recv'[c]) /\ Len(recv'[c]) = Len(recv[c]) + 1]_vars

C2_Witness ==
  \E c \in Conns :
     /\ pendingAuth[c] = {1} /\ Len(recv[c]) = 2 /\ recv[c][2].type = "call"
     /\ ws[c] = "closing" /\ closeReason[c] = "Authentication required"
     /\ forwarded[c] = {}

\* C3: a session is in the registry only if an auth frame of its socket
\* carried the bridge's token and the verifyLicense call made for that very
\* frame returned success.
C3_RegistryOnlyAfterTokenAndLicense ==
  \A c \in Sessions :
     \E k \in licenseOk[c] :
        k <= Len(recv[c]) /\ recv[c][k].type = "auth" /\ recv[c][k].token = authToken

C3_Witness ==
  \E c \in Sessions : ws[c] = "open" /\ licenseOk[c] = {1} /\ AuthSuccessCount(c) = 1

\* C4 (as claimed): a session is put into the registry at most once and at
\* most one auth_success is sent on its socket.
C4_AuthenticatedAtMostOnce ==
  \A c \in Conns : inserts[c] <= 1 /\ AuthSuccessCount(c) <= 1

\* C5 (as claimed): a connection that is still open after its 10 seconds
\* have passed has been authenticated; any other has been closed.
C5_OpenPastDeadlineIsAuthenticated ==
  \A c \in Conns : (ws[c] = "open" /\ elapsed[c] > AuthTimeout) => inserts[c] > 0

\* C6 (as claimed): on a socket on which an authentication has failed
\* (timeout, wrong token, license), no auth_success is sent and the session
\* is not in the registry.
C6_FailedAuthenticationNotAuthenticated ==
  \A c \in Conns : failed[c] # {} => (c \notin Sessions /\ AuthSuccessCount(c) = 0)

\* C7 (as claimed): once an authentication attempt on a socket has failed on
\* the token or on the license, no later frame of that socket is handled as
\* an authentication attempt and the session does not enter the registry.
C7_NoRetryOnSameSocket ==
  [][\A c \in Conns :
       failed[c] \cap {"token", "license"} # {} =>
          /\ \A m \in Messages : ~(Branch(c, m) = "auth" /\ Message(c, m))
          /\ c \in Sessions' => c \in Sessions]_vars

\* C10: when forwardToMCPServer fails, the bridge sends the error envelope
\* with the id of that request on the same socket, closes nothing and leaves
\* the registry as it is.
C10_RelayFailureKeepsSession ==
  [][\A c \in Conns, k \in 1..MaxMsgs, o \in ForwardOutcomes \ {"ok"} :
       HandleMCPMessageResumed(c, k, o) =>
          /\ ws' = ws /\ closeReason' = closeReason
          /\ authenticatedClients' = authenticatedClients
          /\ ws[c] = "open" => sent'[c] = Append(sent[c], [type |-> "error", id |-> k])]_vars

\* After the error envelope of frame 2, frame 3 of the same socket is forwarded.
C10_Witness ==
  \E c \in Sessions :
     /\ ws[c] = "open" /\ 3 \in pendingFwd[c]
     /\ \E i \in 1..Len(sent[c]) : sent[c][i] = [type |-> "error", id |-> 2]

\* The ids of the relay replies (responses and error envelopes) sent on a
\* connection, in the order of their transmission.
ReplyIds(c) ==
  LET r == SelectSeq(sent[c], LAMBDA f : f.type \in {"response", "error"})
  IN [i \in 1..Len(r) |-> r[i].id]

\* C11 (as claimed): on every connection the relay replies are sent in the
\* order in which their requests were received, i.e. with increasing
\* positions of the requests in the socket's stream.
C11_RepliesInRequestOrder ==
  \A c \in Conns : \A i, j \in 1..Len(ReplyIds(c)) :
     i < j => ReplyIds(c)[i] < ReplyIds(c)[j]

\* C12 (as claimed): a sweep tick closes with 'Session expired' and removes
\* every session whose lastActivity is at least 30 minutes old, and leaves in
\* the registry every session whose lastActivity is less than 30 minutes old.
C12_SweepClosesAtThirtyMinutes ==
  \A c \in Conns : \A t \in {swept[c][i] : i \in DOMAIN swept[c]} :
     t.kept <=> t.idle < sessionTimeout

\* C13 (as claimed): once the socket of a connection has closed, the registry
\* holds no session of that connection, then and at every later moment.
C13_ClosedSocketHasNoSession ==
  \A c \in Conns : ws[c] = "closed" => c \notin Sessions

\* C14 (as claimed): when stopBridge runs, every connection that is still
\* open, authenticated or not, is closed by the bridge with the reason
\* 'Bridge service shutting down' before the http server is closed.
C14_StopBridgeClosesEveryConnection ==
  [][StopBridge =>
       \A c \in Conns :
          ws[c] = "open" =>
             ws'[c] = "closing" /\ closeReason'[c] = "Bridge service shutting down"]_vars

\* C15 (as claimed): the http side channel answers /config and /health only
\* for requests whose Host header passes the check of verifyClient, and a
\* request with any other Host header never receives the authToken.
C15_SideChannelOnlyForLoopbackHost ==
  \A i \in DOMAIN httpResponse :
     (httpResponse[i].response.body \in {"config", "health"}
        \/ httpResponse[i].response.authToken # {})
     => verifyClient(httpResponse[i].request.host)

\* The runs of the install that found a JSON document and wrote one.
Rewrites ==
  { i \in DOMAIN installs :
      /\ installs[i].before.state = "json"
      /\ installs[i].result = "ok" /\ installs[i].after.state = "json" }

\* C16 (as claimed): the install leaves every top-level key and every
\* mcpServers entry other than googleClassroom of the existing document
\* present and with an unchanged value in the document it writes.
C16_InstallPreservesOtherEntries ==
  \A i \in Rewrites :
     /\ installs[i].after.doc.theme = installs[i].before.doc.theme
     /\ \A n \in ServerNames \ {"googleClassroom"} :
           installs[i].after.doc.servers[n] = installs[i].before.doc.servers[n]

\* C17 (as claimed): running the install twice yields the same config file
\* as running it once, and a googleClassroom key that is already present
\* keeps its value.
C17_InstallIdempotent ==
  /\ (Len(installs) >= 2 /\ installs[1].result = "ok" /\ installs[2].result = "ok")
        => installs[2].after = installs[1].after
  /\ \A i \in Rewrites :
        installs[i].before.doc.servers["googleClassroom"] # <<>> =>
           installs[i].after.doc.servers["googleClassroom"]
             = installs[i].before.doc.servers["googleClassroom"]

\* C18 (as claimed): when the install has overwritten a config file that
\* existed, it had made a backup holding the file's content before; when the
\* backup could not be made, the file is not written.
C18_BackupBeforeOverwrite ==
  \A i \in DOMAIN installs :
     (installs[i].before.state # "absent" /\ installs[i].after # installs[i].before)
        => installs[i].backup = <<installs[i].before>>

\* C19 (as claimed): when the existing config file is no valid JSON, the
\* install fails, launchClaudeWithMCP returns success:false and the file is
\* left as it was.
C19_CorruptConfigFailsInstall ==
  \A i \in DOMAIN installs :
     installs[i].before.state = "corrupt" =>
        /\ installs[i].result = "error" /\ installs[i].launch = "failed"
        /\ installs[i].after = installs[i].before

\* C20 (as claimed): when a step of the install fails (making the directory,
\* writing the connector script, writing the merged document), the install
\* throws, launchClaudeWithMCP returns success:false and the config file
\* that existed holds its content of before the install.
C20_FailedInstallLeavesConfig ==
  \A i \in DOMAIN installs :
     (installs[i].failed # "none" /\ installs[i].before.state # "absent") =>
        /\ installs[i].result = "error" /\ installs[i].launch = "failed"
        /\ installs[i].after = installs[i].before

\* C21 (as claimed): the connector script that the install wrote, run with
\* the env of the entry that the install wrote, connects to the url of the
\* entry and sends as its first frame {type: 'auth', token} with the entry's
\* MCP_BRIDGE_TOKEN, which the bridge accepts.
C21_ConnectorUsesEntryEnv ==
  (connector.script = "generated" /\ connector.entry # <<>>) =>
     /\ connector.bridgeUrl = connector.entry[1].env.MCP_BRIDGE_URL
     /\ connector.wire # <<>> =>
           /\ connector.wire[1].type = "auth"
           /\ connector.wire[1].token = connector.entry[1].env.MCP_BRIDGE_TOKEN
           /\ TokenAccepted(connector.wire[1])

\* The ids of the stdin messages that the connector has sent on its socket,
\* in the order of their transmission.
SentIds ==
  LET w == SelectSeq(connector.wire, LAMBDA f : f.type = "call")
  IN [i \in 1..Len(w) |-> w[i].id]

\* C26 (as claimed): once the connector has sent its auth frame, every
\* message it reads from stdin is sent on the socket, in order and without
\* loss, also when it is read before auth_success has arrived; and every
\* frame of the bridge that it has received, other than auth_success, is
\* written to stdout.
C26_ConnectorPipesEveryMessage ==
  /\ SentIds = connector.read
  /\ connector.stdout =
       SelectSeq(SubSeq(connector.inbound, 1, connector.delivered),
                 LAMBDA f : f.type # "auth_success")

\* C22 (as claimed): when launchClaudeWithMCP returns success:false after it
\* has started the bridge (the install threw, or the client failed to
\* launch), no server of the bridge listens at the moment it returns.
C22_FailedLaunchStopsBridge ==
  \A i \in DOMAIN installs :
     installs[i].launch = "failed" => installs[i].listeners = {}

\* C23 (as claimed): the document that a successful install has written
\* holds no entry under 'google-classroom-mcp' or 'google-classroom-bridge',
\* on either path of the install.
C23_InstallRemovesDirectEntries ==
  \A i \in DOMAIN installs :
     (installs[i].result = "ok" /\ installs[i].after.state = "json") =>
        \A n \in ourServerNames : installs[i].after.doc.servers[n] = <<>>

\* C24: an auth frame that arrives while its session is in the registry
\* starts no token or license verification and produces no auth_success: it
\* is handed to forwardToMCPServer like any other frame and sets
\* lastActivity, whatever its token; and a verification is started only for
\* a frame that arrives while the session is not in the registry.
C24_AuthOnAuthenticatedSessionIsRelayed ==
  /\ [][\A c \in Conns, m \in Messages :
          (m.type = "auth" /\ c \in Sessions /\ Message(c, m)) =>
             /\ pendingAuth' = pendingAuth /\ licenseOk' = licenseOk
             /\ inserts' = inserts /\ failed' = failed
             /\ sent' = sent /\ ws' = ws /\ closeReason' = closeReason
             /\ forwarded'[c] = forwarded[c] \cup {Len(recv[c]) + 1}
             /\ pendingFwd'[c] = pendingFwd[c] \cup {Len(recv[c]) + 1}
             /\ Sessions' = Sessions
             /\ authenticatedClients'[c].lastActivity = elapsed[c]]_vars
  /\ [][\A c \in Conns : pendingAuth'[c] # pendingAuth[c] /\ c \in Sessions =>
          pendingAuth'[c] \subseteq pendingAuth[c]]_vars

\* An authenticated session has received a second auth frame, with a wrong
\* token, ten seconds after its authentication: the frame was forwarded,
\* lastActivity was set, and there is still one auth_success.
C24_Witness ==
  \E c \in Sessions :
     /\ Len(recv[c]) = 2 /\ recv[c][2] = [type |-> "auth", token |-> "WRONG"]
     /\ forwarded[c] = {2} /\ pendingAuth[c] = {}
     /\ authenticatedClients[c].lastActivity = 10000
     /\ ws[c] = "open" /\ AuthSuccessCount(c) = 1 /\ inserts[c] = 1

\* What the registry holds for a connection: nothing, or its client.
Entry(clients, c) == IF c \in DOMAIN clients THEN <<clients[c]>> ELSE <<>>

\* C25: the sessions are independent.  The registry entry of a connection
\* (its presence and its lastActivity) changes only by an event of that
\* connection itself (a frame of it, the resumption of its own
\* authentication, its 'error' or 'close' event) or by a sweep tick at which
\* that connection itself is idle for more than the timeout; whatever
\* happens to another connection (close, failed authentication, eviction,
\* relay error) leaves it unchanged.
C25_SessionsIndependent ==
  [][\A d \in Conns :
       Entry(authenticatedClients', d) # Entry(authenticatedClients, d) =>
          \/ \E m \in Messages : Message(d, m)
          \/ \E id \in 1..MaxMsgs, q \in LicenseSamples : HandleAuthenticationResumed(d, id, q)
          \/ SocketError(d)
          \/ SocketClosed(d)
          \/ SweepTick /\ d \in Sessions /\ timeSinceActivity(d) > sessionTimeout]_vars

\* Two sessions were authenticated at the same time; one has been evicted by
\* a sweep tick, the other, which got a relay error meanwhile, is still in
\* the registry with its own lastActivity.
C25_Witness ==
  \E c, d \in Conns :
     /\ c # d /\ inserts[c] = 1 /\ inserts[d] = 1
     /\ c \notin Sessions /\ swept[c] # <<>> /\ ~swept[c][1].kept
     /\ closeReason[c] = "Session expired"
     /\ d \in Sessions /\ ws[d] = "open"
     /\ authenticatedClients[d].lastActivity = sessionTimeout + 1000
     /\ \E i \in 1..Len(sent[d]) : sent[d][i].type = "error"

\* C27 (as claimed): from the stopBridge call that cleared the registry
\* until the next startBridge call that succeeds (the time in which the
\* sweep timer is not set), the registry is empty and no auth_success is
\* sent, also for a connection whose license check was pending when
\* stopBridge ran.
C27_NoSessionAfterStopBridge ==
  /\ [](~cleanupInterval => Sessions = {})
  /\ [][(~cleanupInterval /\ ~cleanupInterval') =>
          \A c \in Conns :
             Len(sent'[c]) > Len(sent[c]) =>
                sent'[c][Len(sent'[c])].type # "auth_success"]_vars

\* C28 (as claimed): at the moment a stopBridge call returns success, no
\* server that this service created holds the port, also when startBridge
\* was called again while the bridge was running.
C28_NoListenerAfterStopBridge ==
  [][(StopBridgeClosed \/ (StopBridge /\ httpServer = 0)) => listening' = {}]_vars

\* C29 (as claimed): whenever no startBridge or stopBridge call is in
\* flight, getStatus().isRunning is true exactly when a server of the
\* service listens, also after a startBridge call that failed to bind the
\* port.
C29_IsRunningIffListening ==
  (startPc = "idle" /\ stopPc = 0) => (isRunning <=> listening # {})

\* The user's license is a trial whose expires_at lies in the past.
ExpiredTrial(l) ==
  /\ l.outcome = "row" /\ l.license.status = "trial"
  /\ l.license.expires_at # <<>> /\ l.license.expires_at[1] < 0

\* C30 (as claimed): when getLicenseStatus finds a trial license whose
\* expires_at lies in the past, the license check of the bridge denies: the
\* startBridge call returns success:false, and the authentication of a
\* connection that presented the correct token ends with the socket closed
\* with 'License verification failed'.
C30_ExpiredTrialDenied ==
  [][\A l \in LicenseLookups :
       ExpiredTrial(l) =>
          /\ StartBridgeLicensed(getLicenseStatus(l)) => startResult' = "license_failed"
          /\ \A c \in Conns, id \in 1..MaxMsgs :
                (HandleAuthenticationResumed(c, id, getLicenseStatus(l)) /\ ws[c] = "open") =>
                   /\ ws'[c] = "closing"
                   /\ closeReason'[c] = "License verification failed"
                   /\ c \notin Sessions']_vars

====
